---- MODULE Spec2Model ----
(***************************************************************************)
(* Model of src/regex.py: a regular expression is compiled by RegexFSM's   *)
(* constructor into a graph of State objects, and RegexFSM.check_string    *)
(* runs that graph on an input string with a set of simultaneously active  *)
(* states.                                                                 *)
(*                                                                         *)
(* A string is a sequence of one-character strings.  A State object is a   *)
(* record in the sequence `graph`; its identity is its index there, in     *)
(* order of construction (the StartState is object 1).                     *)
(***************************************************************************)
EXTENDS Integers, Sequences, FiniteSets, TLC

(***************************************************************************)
(* Bounds of the model.                                                    *)
(***************************************************************************)
MaxPatLen == 3
MaxInLen == 3
MaxCalls == 2

(***************************************************************************)
(* Characters.  Ord is Python's ord() on the characters the model uses.    *)
(***************************************************************************)
Ord ==
    ("*" :> 42) @@ ("+" :> 43) @@ ("-" :> 45) @@ ("." :> 46) @@
    ("0" :> 48) @@ ("1" :> 49) @@ ("2" :> 50) @@ ("3" :> 51) @@
    ("5" :> 53) @@ ("9" :> 57) @@
    ("A" :> 65) @@ ("B" :> 66) @@ ("C" :> 67) @@
    ("[" :> 91) @@ ("]" :> 93) @@ ("^" :> 94) @@
    ("a" :> 97) @@ ("b" :> 98) @@ ("c" :> 99) @@ ("x" :> 120) @@ ("z" :> 122)

\* The value None: no string (a string holds characters only).
None == <<"None">>

(***************************************************************************)
(* State objects.  Every object has next_states; curr_sym is AsciiState's, *)
(* char_ranges / individual_chars / negated are CharacterClassState's,     *)
(* checking_state is StarState's and PlusState's (0: the field is absent). *)
(***************************************************************************)
NewState(kind) ==
    [kind |-> kind, next_states |-> <<>>, curr_sym |-> "",
     char_ranges |-> <<>>, individual_chars |-> {}, negated |-> FALSE,
     checking_state |-> 0]

StartState == NewState("Start")

TerminationState == NewState("Termination")

DotState == NewState("Dot")

AsciiState(symbol) == [NewState("Ascii") EXCEPT !.curr_sym = symbol]

StarState(checking_state) ==
    [NewState("Star") EXCEPT !.checking_state = checking_state]

PlusState(checking_state) ==
    [NewState("Plus") EXCEPT !.checking_state = checking_state]

\* class_spec[lo..hi] (1-based, inclusive): a Python slice.
Slice(s, lo, hi) == [k \in 1..(hi - lo + 1) |-> s[lo + k - 1]]

\* The while loop of CharacterClassState.__init__ from position i (1-based),
\* with the ranges and single characters collected so far.
RECURSIVE ClassScan(_, _, _, _)
ClassScan(class_spec, i, ranges, chars) ==
    IF i > Len(class_spec) THEN [char_ranges |-> ranges, individual_chars |-> chars]
    ELSE IF i + 2 <= Len(class_spec) /\ class_spec[i + 1] = "-"
         THEN ClassScan(class_spec, i + 3,
                        Append(ranges, <<class_spec[i], class_spec[i + 2]>>), chars)
         ELSE ClassScan(class_spec, i + 1, ranges, chars \cup {class_spec[i]})

\* CharacterClassState.__init__ were the leading `^` not cut from class_spec:
\* C16_ClassParsing tells the two apart.
CharacterClassStateKeepCaret(class_spec) ==
    LET neg  == Len(class_spec) > 0 /\ class_spec[1] = "^"
        scan == ClassScan(class_spec, 1, <<>>, {})
    IN  [NewState("Class") EXCEPT !.negated = neg,
                                  !.char_ranges = scan.char_ranges,
                                  !.individual_chars = scan.individual_chars]

CharacterClassState(class_spec) ==
    LET neg  == Len(class_spec) > 0 /\ class_spec[1] = "^"
        body == IF neg THEN Slice(class_spec, 2, Len(class_spec)) ELSE class_spec
        scan == ClassScan(body, 1, <<>>, {})
    IN  [NewState("Class") EXCEPT !.negated = neg,
                                  !.char_ranges = scan.char_ranges,
                                  !.individual_chars = scan.individual_chars]

\* CharacterClassState.check_self were it to return in_class whatever negated
\* is: C7_CharacterClass tells the two apart.
ClassCheckSelfNoNegation(st, char) ==
    \/ \E k \in 1..Len(st.char_ranges) :
          /\ Ord[st.char_ranges[k][1]] <= Ord[char]
          /\ Ord[char] <= Ord[st.char_ranges[k][2]]
    \/ char \in st.individual_chars

\* CharacterClassState.check_self on the object st.
ClassCheckSelf(st, char) ==
    LET in_ranges == \E k \in 1..Len(st.char_ranges) :
                        /\ Ord[st.char_ranges[k][1]] <= Ord[char]
                        /\ Ord[char] <= Ord[st.char_ranges[k][2]]
        in_class  == IF ~in_ranges THEN char \in st.individual_chars ELSE TRUE
    IN  IF st.negated THEN ~in_class ELSE in_class

\* check_self were a StarState or PlusState to compare the character with the
\* symbol of its checking_state, taken to be an AsciiState:
\* C20_NestedQuantifiers tells the two apart.
check_selfOneLevel(g, s, char) ==
    CASE g[s].kind = "Start"       -> FALSE
      [] g[s].kind = "Termination" -> FALSE
      [] g[s].kind = "Dot"         -> TRUE
      [] g[s].kind = "Ascii"       -> g[s].curr_sym = char
      [] g[s].kind = "Class"       -> ClassCheckSelf(g[s], char)
      [] g[s].kind \in {"Star", "Plus"} ->
            LET inner == g[g[s].checking_state]
            IN  CASE inner.kind = "Dot"   -> TRUE
                  [] inner.kind = "Class" -> ClassCheckSelf(inner, char)
                  [] OTHER                -> inner.curr_sym = char

\* check_self of object s of graph g, dispatched on its class.
RECURSIVE check_self(_, _, _)
check_self(g, s, char) ==
    CASE g[s].kind = "Start"       -> FALSE
      [] g[s].kind = "Termination" -> FALSE
      [] g[s].kind = "Dot"         -> TRUE
      [] g[s].kind = "Ascii"       -> g[s].curr_sym = char
      [] g[s].kind = "Class"       -> ClassCheckSelf(g[s], char)
      [] g[s].kind = "Star"        -> check_self(g, g[s].checking_state, char)
      [] g[s].kind = "Plus"        -> check_self(g, g[s].checking_state, char)

(***************************************************************************)
(* RegexFSM.__init__: the compiler.  Its local state is the record         *)
(* [i, states, graph]: the scan position (1-based), the list of constructs *)
(* built so far and the objects created so far.                            *)
(***************************************************************************)
start_state == 1

\* The first position >= j of regex_expr holding "]", or Len + 1.
RECURSIVE FindClose(_, _)
FindClose(regex_expr, j) ==
    IF j <= Len(regex_expr) /\ regex_expr[j] # "]"
    THEN FindClose(regex_expr, j + 1)
    ELSE j

\* The checks before the loop without the one for a leading `+`:
\* C3_InvalidPattern tells the two apart.
PatternErrorNoPlus(regex_expr) ==
    IF regex_expr = <<>> THEN "Empty regex pattern"
    ELSE IF regex_expr[1] = "*"
         THEN "'*' cannot be used without a preceding character"
    ELSE ""

\* The checks made before the loop: the message of the ValueError, or "".
PatternError(regex_expr) ==
    IF regex_expr = <<>> THEN "Empty regex pattern"
    ELSE IF regex_expr[1] = "*"
         THEN "'*' cannot be used without a preceding character"
    ELSE IF regex_expr[1] = "+"
         THEN "'+' cannot be used without a preceding character"
    ELSE ""

\* The `*` branch without the StarState's edge to itself:
\* C5_StarOfLiteral tells the two apart.
StarBranchNoLoop(cs) ==
    LET n          == Len(cs.states)
        prev_state == cs.states[n]
        star_state == Len(cs.graph) + 1
        parent     == IF n >= 2 THEN cs.states[n - 1] ELSE start_state
        g1 == Append(cs.graph, StarState(prev_state))
        g2 == [g1 EXCEPT ![parent].next_states =
                  Append(SelectSeq(@, LAMBDA s : s # prev_state), star_state)]
    IN  [i |-> cs.i + 1,
         states |-> [cs.states EXCEPT ![n] = star_state],
         graph |-> g2]

\* The `*` branch were prev_state left among its parent's successors:
\* C14_Rewired tells the two apart.
StarBranchKeepPrev(cs) ==
    LET n          == Len(cs.states)
        prev_state == cs.states[n]
        star_state == Len(cs.graph) + 1
        parent     == IF n >= 2 THEN cs.states[n - 1] ELSE start_state
        g1 == Append(cs.graph, StarState(prev_state))
        g2 == [g1 EXCEPT ![parent].next_states = Append(@, star_state)]
        g3 == [g2 EXCEPT ![star_state].next_states = Append(@, star_state)]
    IN  [i |-> cs.i + 1,
         states |-> [cs.states EXCEPT ![n] = star_state],
         graph |-> g3]

\* The branch `char == '*' and states`.
StarBranch(cs) ==
    LET n          == Len(cs.states)
        prev_state == cs.states[n]
        star_state == Len(cs.graph) + 1
        parent     == IF n >= 2 THEN cs.states[n - 1] ELSE start_state
        g1 == Append(cs.graph, StarState(prev_state))
        g2 == [g1 EXCEPT ![parent].next_states =
                  Append(SelectSeq(@, LAMBDA s : s # prev_state), star_state)]
        g3 == [g2 EXCEPT ![star_state].next_states = Append(@, star_state)]
    IN  [i |-> cs.i + 1,
         states |-> [cs.states EXCEPT ![n] = star_state],
         graph |-> g3]

\* The `+` branch were the repetition an edge from prev_state back to the
\* PlusState: C13_OnlySelfLoops tells the two apart.
PlusBranchLoopThroughPrev(cs) ==
    LET n          == Len(cs.states)
        prev_state == cs.states[n]
        plus_state == Len(cs.graph) + 1
        parent     == IF n >= 2 THEN cs.states[n - 1] ELSE start_state
        g1 == Append(cs.graph, PlusState(prev_state))
        g2 == [g1 EXCEPT ![parent].next_states =
                  Append(SelectSeq(@, LAMBDA s : s # prev_state), plus_state)]
        g3 == [g2 EXCEPT ![plus_state].next_states = Append(@, prev_state),
                         ![prev_state].next_states = Append(@, plus_state)]
    IN  [i |-> cs.i + 1,
         states |-> [cs.states EXCEPT ![n] = plus_state],
         graph |-> g3]

\* The branch `char == '+' and states`.
PlusBranch(cs) ==
    LET n          == Len(cs.states)
        prev_state == cs.states[n]
        plus_state == Len(cs.graph) + 1
        parent     == IF n >= 2 THEN cs.states[n - 1] ELSE start_state
        g1 == Append(cs.graph, PlusState(prev_state))
        g2 == [g1 EXCEPT ![parent].next_states =
                  Append(SelectSeq(@, LAMBDA s : s # prev_state), plus_state)]
        g3 == [g2 EXCEPT ![plus_state].next_states = Append(@, plus_state)]
    IN  [i |-> cs.i + 1,
         states |-> [cs.states EXCEPT ![n] = plus_state],
         graph |-> g3]

\* A new construct linked from the last construct, or from the StartState.
Link(cs, new_object, next_i) ==
    LET new_state == Len(cs.graph) + 1
        parent    == IF cs.states # <<>> THEN cs.states[Len(cs.states)]
                     ELSE start_state
        g1 == Append(cs.graph, new_object)
    IN  [i |-> next_i,
         states |-> Append(cs.states, new_state),
         graph |-> [g1 EXCEPT ![parent].next_states = Append(@, new_state)]]

\* The branch `char == '['`, once the closing bracket is found at j.
ClassBranch(regex_expr, cs) ==
    LET j == FindClose(regex_expr, cs.i + 1)
    IN  Link(cs, CharacterClassState(Slice(regex_expr, cs.i + 1, j - 1)), j + 1)

\* The else branch were `.` an ordinary character:
\* C2_LiteralsAndDots tells the two apart.
CharBranchDotLiteral(regex_expr, cs) ==
    Link(cs, AsciiState(regex_expr[cs.i]), cs.i + 1)

\* The else branch: `.` or a literal character.
CharBranch(regex_expr, cs) ==
    LET char == regex_expr[cs.i]
    IN  Link(cs, IF char = "." THEN DotState ELSE AsciiState(char), cs.i + 1)

\* The end of the constructor were the TerminationState linked only when
\* there is no construct: C12_OneStartOneTermination tells the two apart.
TerminateIfNoStates(cs) ==
    LET term_state == Len(cs.graph) + 1
        g1 == Append(cs.graph, TerminationState)
    IN  IF cs.states # <<>> THEN g1
        ELSE [g1 EXCEPT ![start_state].next_states = Append(@, term_state)]

\* After the loop: the TerminationState, linked from the last construct.
Terminate(cs) ==
    LET term_state == Len(cs.graph) + 1
        last       == IF cs.states # <<>> THEN cs.states[Len(cs.states)]
                      ELSE start_state
        g1 == Append(cs.graph, TerminationState)
    IN  [g1 EXCEPT ![last].next_states = Append(@, term_state)]

\* Which branch one iteration of the loop takes at position cs.i.
Branch(regex_expr, cs) ==
    LET char == regex_expr[cs.i]
    IN  IF char = "*" /\ cs.states # <<>> THEN "star"
        ELSE IF char = "+" /\ cs.states # <<>> THEN "plus"
        ELSE IF char = "[" THEN
            IF FindClose(regex_expr, cs.i + 1) > Len(regex_expr)
            THEN "unclosed" ELSE "class"
        ELSE "char"

\* One iteration of the loop that does not raise.
LoopStep(regex_expr, cs) ==
    CASE Branch(regex_expr, cs) = "star"  -> StarBranch(cs)
      [] Branch(regex_expr, cs) = "plus"  -> PlusBranch(cs)
      [] Branch(regex_expr, cs) = "class" -> ClassBranch(regex_expr, cs)
      [] Branch(regex_expr, cs) = "char"  -> CharBranch(regex_expr, cs)

\* The loop run to its end from cs: the graph built, or the error raised.
RECURSIVE CompileLoop(_, _)
CompileLoop(regex_expr, cs) ==
    IF cs.i > Len(regex_expr)
    THEN [error |-> "", graph |-> Terminate(cs)]
    ELSE IF Branch(regex_expr, cs) = "unclosed"
    THEN [error |-> "Unclosed character class", graph |-> cs.graph]
    ELSE CompileLoop(regex_expr, LoopStep(regex_expr, cs))

\* RegexFSM(regex_expr): the whole constructor.
RegexFSM(regex_expr) ==
    IF PatternError(regex_expr) # ""
    THEN [error |-> PatternError(regex_expr), graph |-> <<StartState>>]
    ELSE CompileLoop(regex_expr,
                     [i |-> 1, states |-> <<>>, graph |-> <<StartState>>])

(***************************************************************************)
(* RegexFSM._add_epsilon_transitions and _can_terminate_without_input.     *)
(* Both start from list(states), the members of a Python set in the order  *)
(* the set iterates them: any order.  The operators take that list.        *)
(***************************************************************************)
\* The isinstance test were PlusState to pass it too:
\* C6_PlusNotSkipped tells the two apart.
IsStarOrPlusState(g, s) == g[s].kind \in {"Star", "Plus"}

IsStarState(g, s) == g[s].kind = "Star"

\* Every list holding each member of the set S once: what list(S) may be.
Orderings(S) ==
    {q \in [1..Cardinality(S) -> S] : \A m, n \in DOMAIN q : m # n => q[m] # q[n]}

\* The first inner loop, run on a popped StarState from its k-th successor:
\* a successor that is the state itself and is not in res is added.
RECURSIVE SelfLoopFold(_, _, _, _, _, _)
SelfLoopFold(g, state, k, res, worklist, visited) ==
    IF k > Len(g[state].next_states) THEN [res |-> res, worklist |-> worklist]
    ELSE LET next_state == g[state].next_states[k]
         IN  IF next_state = state /\ next_state \notin res
             THEN SelfLoopFold(g, state, k + 1, res \cup {next_state},
                               IF next_state \notin visited
                               THEN Append(worklist, next_state) ELSE worklist,
                               visited)
             ELSE SelfLoopFold(g, state, k + 1, res, worklist, visited)

\* The second inner loop were it to test the popped state, not its successor:
\* C1_FullMatch tells the two apart.
StarSuccessorsOfStar(g, state, visited) ==
    SelectSeq(g[state].next_states,
              LAMBDA next_state : g[state].kind = "Star" /\ next_state \notin visited)

\* The second inner loop: the successors that are StarStates not yet visited.
StarSuccessors(g, state, visited) ==
    SelectSeq(g[state].next_states,
              LAMBDA next_state : IsStarState(g, next_state) /\ next_state \notin visited)

SeqToSet(q) == {q[k] : k \in DOMAIN q}

\* The while loop of _add_epsilon_transitions were the StarStates it adds not
\* put on the worklist: C17_Closure tells the two apart.
RECURSIVE EpsilonLoopOneLevel(_, _, _, _)
EpsilonLoopOneLevel(g, res, worklist, visited) ==
    IF worklist = <<>> THEN res
    ELSE LET state == Head(worklist)
             rest  == Tail(worklist)
         IN  IF state \in visited THEN EpsilonLoopOneLevel(g, res, rest, visited)
             ELSE EpsilonLoopOneLevel(g,
                      res \cup SeqToSet(StarSuccessors(g, state, visited \cup {state})),
                      rest, visited \cup {state})

\* The while loop of _add_epsilon_transitions.
RECURSIVE EpsilonLoop(_, _, _, _)
EpsilonLoop(g, res, worklist, visited) ==
    IF worklist = <<>> THEN res
    ELSE LET state == Head(worklist)
             rest  == Tail(worklist)
         IN  IF state \in visited THEN EpsilonLoop(g, res, rest, visited)
             ELSE LET seen  == visited \cup {state}
                      first == IF IsStarState(g, state)
                               THEN SelfLoopFold(g, state, 1, res, rest, seen)
                               ELSE [res |-> res, worklist |-> rest]
                      added == StarSuccessors(g, state, seen)
                  IN  EpsilonLoop(g, first.res \cup SeqToSet(added),
                                  first.worklist \o added, seen)

\* _add_epsilon_transitions(states), with list(states) = worklist.
add_epsilon_transitions(g, worklist) ==
    EpsilonLoop(g, SeqToSet(worklist), worklist, {})

\* The test were it made on the state itself, not on its successors:
\* C18_DirectEdge tells the two apart.
IsTermination(g, state) == g[state].kind = "Termination"

HasTermination(g, state) ==
    \E k \in 1..Len(g[state].next_states) :
        g[g[state].next_states[k]].kind = "Termination"

\* The search were it to answer from the first state it pops:
\* C9_Deterministic tells the two apart.
TerminateLoopFirstOnly(g, queue, visited) ==
    queue # <<>> /\ HasTermination(g, Head(queue))

\* The while loop of _can_terminate_without_input.
RECURSIVE TerminateLoop(_, _, _)
TerminateLoop(g, queue, visited) ==
    IF queue = <<>> THEN FALSE
    ELSE LET state == Head(queue)
             rest  == Tail(queue)
         IN  IF state \in visited THEN TerminateLoop(g, rest, visited)
             ELSE IF HasTermination(g, state) THEN TRUE
             ELSE TerminateLoop(g,
                                rest \o StarSuccessors(g, state, visited \cup {state}),
                                visited \cup {state})

\* _can_terminate_without_input(states), with list(states) = queue.
can_terminate_without_input(g, queue) == TerminateLoop(g, queue, {})

(***************************************************************************)
(* RegexFSM.check_string.                                                  *)
(***************************************************************************)
\* next_states of one iteration of the loop over the input.
NextStates(g, current, char) ==
    {next_state \in 1..Len(g) :
        /\ \E state \in current : next_state \in SeqToSet(g[state].next_states)
        /\ check_self(g, next_state, char)}

\* The active set before the first character.
InitialStates(g) == add_epsilon_transitions(g, <<start_state>>)

\* The loop over input_str from position pos with the active set current:
\* the values a run can return.  list(states) iterates a set in an order that
\* is no function of the set, so each list(...) is any of Orderings.
RECURSIVE ScanFrom(_, _, _, _)
ScanFrom(g, input_str, pos, current) ==
    IF pos > Len(input_str)
    THEN {can_terminate_without_input(g, queue) : queue \in Orderings(current)}
    ELSE LET next_states == NextStates(g, current, input_str[pos])
         IN  IF next_states = {} THEN {FALSE}
             ELSE UNION {ScanFrom(g, input_str, pos + 1,
                                  add_epsilon_transitions(g, worklist)) :
                            worklist \in Orderings(next_states)}

\* check_string(input_str) for a string: the values a run can return, one
\* for each way the run can iterate its sets.
check_string(g, input_str) ==
    IF input_str = <<>>
    THEN {can_terminate_without_input(g, queue) :
             queue \in Orderings(InitialStates(g))}
    ELSE ScanFrom(g, input_str, 1, InitialStates(g))

(***************************************************************************)
(* The inputs: every pattern and every input string up to a length over a  *)
(* small alphabet, and the patterns and inputs the documentation names.    *)
(***************************************************************************)
PatAlphabet == {"a", "b", ".", "*", "+", "[", "]"}

InAlphabet == {"a", "b"}

SeqsUpTo(A, n) == UNION {[1..k -> A] : k \in 0..n}

ExamplePatterns ==
    { <<"a", ".", "c">>,
      <<"*", "a", "b", "c">>,
      <<"[", "a", "b", "c">>,
      <<"[", "a", "-", "z", "0", "-", "9", "]", "+">>,
      <<"[", "^", "0", "-", "9", "]">>,
      <<"[", "^", "a", "]", "*">>,
      <<"[", "a", "-", "]", "+">>,
      <<"[", "b", "-", "a", "]">>,
      <<"[", "a", "^", "]">>,
      <<"a", "*", "b", "*">>,
      <<"a", "+", "b", "*">>,
      <<"a", "*", "b", "*", "c">>,
      <<".", "*", "b", "+">> }

ExampleInputs ==
    { <<"a", "b", "c">>, <<"a", "c">>, <<"a", "x", "c">>, <<"a", "a", "a", "a">>,
      <<"a", "b", "c", "1", "2", "3">>, <<"A", "B", "C">>,
      <<"5">>, <<"x">>, <<"-">>, <<"a", "5">>, <<"x", "b", "b">> }

Patterns == SeqsUpTo(PatAlphabet, MaxPatLen) \cup ExamplePatterns

Inputs == SeqsUpTo(InAlphabet, MaxInLen) \cup ExampleInputs

(***************************************************************************)
(* The program: one RegexFSM is constructed from regex_expr, then          *)
(* check_string is called on it, up to MaxCalls times.                     *)
(*   pc        "new" (before the constructor), "compiling" (in its loop),  *)
(*             "invalid" (it raised ValueError), "ready" (constructed),    *)
(*             "scan" (check_string is in its loop), "returned" and        *)
(*             "raised" (the last call returned result / raised ValueError)*)
(*   i, states, graph   the constructor's i and states; the objects        *)
(*   input_str, pos, current, result   check_string's argument, the        *)
(*             1-based position of the next character, its active set and  *)
(*             its return value                                            *)
(*   search    the locals of the graph search in progress, when a run is   *)
(*             followed one loop iteration at a time: res, worklist and    *)
(*             visited of _add_epsilon_transitions, queue and visited of   *)
(*             _can_terminate_without_input, and visits, which counts for  *)
(*             each object how often this search has added it to visited   *)
(***************************************************************************)
VARIABLES regex_expr, i, states, graph, pc, error,
          input_str, pos, current, result, calls, search

vars == <<regex_expr, i, states, graph, pc, error,
          input_str, pos, current, result, calls, search>>

compiler == [i |-> i, states |-> states, graph |-> graph]

matcher == <<input_str, pos, current, result, calls, search>>

\* No search in progress.
NoSearch ==
    [res |-> {}, worklist |-> <<>>, queue |-> <<>>, visited |-> {}, visits |-> <<>>]

Init ==
    /\ regex_expr \in Patterns
    /\ i = 1
    /\ states = <<>>
    /\ graph = <<>>
    /\ pc = "new"
    /\ error = ""
    /\ input_str = None
    /\ pos = 1
    /\ current = {}
    /\ result = FALSE
    /\ calls = 0
    /\ search = NoSearch

\* __init__ up to its loop: the StartState and the checks of the pattern.
Construct ==
    /\ pc = "new"
    /\ graph' = <<StartState>>
    /\ error' = PatternError(regex_expr)
    /\ pc' = IF PatternError(regex_expr) # "" THEN "invalid" ELSE "compiling"
    /\ UNCHANGED <<regex_expr, i, states, matcher>>

InLoop(branch) ==
    /\ pc = "compiling"
    /\ i <= Len(regex_expr)
    /\ Branch(regex_expr, compiler) = branch

Built(cs) ==
    /\ i' = cs.i
    /\ states' = cs.states
    /\ graph' = cs.graph
    /\ UNCHANGED <<regex_expr, pc, error, matcher>>

CompileStar == InLoop("star") /\ Built(StarBranch(compiler))

CompilePlus == InLoop("plus") /\ Built(PlusBranch(compiler))

CompileClass == InLoop("class") /\ Built(ClassBranch(regex_expr, compiler))

CompileChar == InLoop("char") /\ Built(CharBranch(regex_expr, compiler))

CompileUnclosed ==
    /\ InLoop("unclosed")
    /\ pc' = "invalid"
    /\ error' = "Unclosed character class"
    /\ UNCHANGED <<regex_expr, i, states, graph, matcher>>

CompileEnd ==
    /\ pc = "compiling"
    /\ i > Len(regex_expr)
    /\ graph' = Terminate(compiler)
    /\ pc' = "ready"
    /\ UNCHANGED <<regex_expr, i, states, error, matcher>>

Callable == pc \in {"ready", "returned", "raised"} /\ calls < MaxCalls

\* check_string(None) were `not input_str` tested first:
\* C4_InputRequired tells the two apart.
CallNoneAsEmpty ==
    /\ Callable
    /\ input_str' = None
    /\ calls' = calls + 1
    /\ pc' = "returned"
    /\ current' = InitialStates(graph)
    /\ \E queue \in Orderings(current') :
           result' = can_terminate_without_input(graph, queue)
    /\ UNCHANGED <<regex_expr, i, states, graph, pos, error, search>>

\* check_string(None).
CallNone ==
    /\ Callable
    /\ input_str' = None
    /\ calls' = calls + 1
    /\ pc' = "raised"
    /\ error' = "Input string is required"
    /\ result' = FALSE
    /\ UNCHANGED <<regex_expr, i, states, graph, pos, current, search>>

\* check_string(s) up to its loop; the whole call when s is empty.
Call ==
    /\ Callable
    /\ \E s \in Inputs :
        /\ input_str' = s
        /\ current' = InitialStates(graph)
        /\ IF s = <<>>
           THEN /\ pc' = "returned"
                /\ \E queue \in Orderings(current') :
                       result' = can_terminate_without_input(graph, queue)
           ELSE /\ pc' = "scan"
                /\ result' = FALSE
    /\ calls' = calls + 1
    /\ pos' = 1
    /\ error' = ""
    /\ UNCHANGED <<regex_expr, i, states, graph, search>>

\* The iteration without the return on an empty next_states (the character
\* is passed over): C8_SingleConstruct tells the two apart.
ScanCharNoReject ==
    /\ pc = "scan"
    /\ pos <= Len(input_str)
    /\ LET next_states == NextStates(graph, current, input_str[pos])
       IN  IF next_states = {}
           THEN UNCHANGED current
           ELSE \E worklist \in Orderings(next_states) :
                    current' = add_epsilon_transitions(graph, worklist)
    /\ pos' = pos + 1
    /\ UNCHANGED <<regex_expr, i, states, graph, pc, error, input_str, result, calls,
                   search>>

\* The return after the loop were it to unlink the states it visited last from
\* their successors: C10_GraphUnchanged tells the two apart.
ScanEndUnlinking ==
    /\ pc = "scan"
    /\ pos > Len(input_str)
    /\ \E queue \in Orderings(current) :
           result' = can_terminate_without_input(graph, queue)
    /\ graph' = [s \in DOMAIN graph |->
                    IF s \in current THEN [graph[s] EXCEPT !.next_states = <<>>]
                    ELSE graph[s]]
    /\ pc' = "returned"
    /\ UNCHANGED <<regex_expr, i, states, error, input_str, pos, current, calls,
                   search>>

\* The iteration were it to raise, as State.check_next does, when no
\* successor accepts the character: C19_RejectIsFalse tells the two apart.
ScanCharRaising ==
    /\ pc = "scan"
    /\ pos <= Len(input_str)
    /\ LET next_states == NextStates(graph, current, input_str[pos])
       IN  IF next_states = {}
           THEN /\ error' = "rejected string"
                /\ pc' = "raised"
                /\ UNCHANGED <<pos, current>>
           ELSE /\ \E worklist \in Orderings(next_states) :
                       current' = add_epsilon_transitions(graph, worklist)
                /\ pos' = pos + 1
                /\ UNCHANGED <<pc, error>>
    /\ UNCHANGED <<regex_expr, i, states, graph, input_str, result, calls, search>>

\* One iteration of the loop over input_str.
ScanChar ==
    /\ pc = "scan"
    /\ pos <= Len(input_str)
    /\ LET next_states == NextStates(graph, current, input_str[pos])
       IN  IF next_states = {}
           THEN /\ result' = FALSE
                /\ pc' = "returned"
                /\ UNCHANGED <<pos, current>>
           ELSE /\ \E worklist \in Orderings(next_states) :
                       current' = add_epsilon_transitions(graph, worklist)
                /\ pos' = pos + 1
                /\ UNCHANGED <<pc, result>>
    /\ UNCHANGED <<regex_expr, i, states, graph, error, input_str, calls, search>>

\* The return after the loop.
ScanEnd ==
    /\ pc = "scan"
    /\ pos > Len(input_str)
    /\ \E queue \in Orderings(current) :
           result' = can_terminate_without_input(graph, queue)
    /\ pc' = "returned"
    /\ UNCHANGED <<regex_expr, i, states, graph, error, input_str, pos, current, calls,
                   search>>

Next ==
    \/ Construct
    \/ CompileStar
    \/ CompilePlus
    \/ CompileClass
    \/ CompileChar
    \/ CompileUnclosed
    \/ CompileEnd
    \/ CallNone
    \/ Call
    \/ ScanChar
    \/ ScanEnd

Spec == Init /\ [][Next]_vars

(***************************************************************************)
(* Definitions the properties share.                                       *)
(***************************************************************************)
Compiled == pc \in {"ready", "scan", "returned", "raised"}

Quantifiers == {"*", "+"}

\* The pattern read as constructs, each with the quantifier written after it
\* ("" when there is none), from position k; <<"fail">> marks a pattern that
\* is no such sequence (a quantifier with no construct before it, a second
\* quantifier, an unclosed class).
RECURSIVE Constructs(_, _)
Constructs(p, k) ==
    IF k > Len(p) THEN <<>>
    ELSE IF p[k] \in Quantifiers THEN <<"fail">>
    ELSE LET close == IF p[k] = "[" THEN FindClose(p, k + 1) ELSE k
         IN  IF close > Len(p) THEN <<"fail">>
             ELSE LET quant == IF close < Len(p) /\ p[close + 1] \in Quantifiers
                               THEN p[close + 1] ELSE ""
                      rest  == Constructs(p, close + (IF quant = "" THEN 1 ELSE 2))
                  IN  IF rest = <<"fail">> THEN rest
                      ELSE << <<Slice(p, k, close), quant>> >> \o rest

IsConstructSequence(p) == p # <<>> /\ Constructs(p, 1) # <<"fail">>

\* Whether the construct written as text (a literal, `.` or `[...]`) accepts c.
Accepts(text, c) ==
    IF Len(text) = 1
    THEN text[1] = "." \/ text[1] = c
    ELSE ClassCheckSelf(CharacterClassState(Slice(text, 2, Len(text) - 1)), c)

\* The reference matcher: input s from position n on splits into one block per
\* construct of cons from the k-th on.
RECURSIVE Splits(_, _, _, _)
Splits(cons, k, s, n) ==
    IF k > Len(cons) THEN n > Len(s)
    ELSE LET text  == cons[k][1]
             quant == cons[k][2]
             least == IF quant = "*" THEN 0 ELSE 1
             most  == IF quant = "" THEN 1 ELSE Len(s) - n + 1
         IN  \E m \in least..most :
                /\ n + m - 1 <= Len(s)
                /\ \A t \in n..(n + m - 1) : Accepts(text, s[t])
                /\ Splits(cons, k + 1, s, n + m)

\* C1: when check_string returns on a pattern that is a sequence of constructs,
\* each followed by at most one quantifier, it returns true iff the whole
\* input splits into consecutive blocks, one per construct in order: one
\* accepted character for an unquantified construct, zero or more for `*`,
\* one or more for `+`.
C1_FullMatch ==
    (pc = "returned" /\ IsConstructSequence(regex_expr))
        => (result <=> Splits(Constructs(regex_expr, 1), 1, input_str, 1))

C1_Witness ==
    /\ pc = "returned"
    /\ IsConstructSequence(regex_expr)
    /\ Len(Constructs(regex_expr, 1)) >= 3
    /\ \E k \in 1..2 : Constructs(regex_expr, 1)[k][2] = "*"
    /\ Len(input_str) >= 2
    /\ result

\* C2: on a pattern of literals and `.` only, check_string returns true iff
\* the input is as long as the pattern and each pattern character is `.` or
\* the input's character at that position.
C2_LiteralsAndDots ==
    (/\ pc = "returned"
     /\ \A k \in 1..Len(regex_expr) : regex_expr[k] \notin {"*", "+", "["})
        => (result <=>
                /\ Len(input_str) = Len(regex_expr)
                /\ \A k \in 1..Len(regex_expr) :
                       regex_expr[k] = "." \/ regex_expr[k] = input_str[k])

C2_Witness ==
    /\ pc = "returned"
    /\ regex_expr = <<"a", ".", "c">>
    /\ input_str = <<"a", "x", "c">>
    /\ result

\* The patterns the constructor is to refuse: empty, a leading quantifier, or
\* a `[` with no `]` anywhere after it.
InvalidPattern(p) ==
    \/ p = <<>>
    \/ p[1] \in Quantifiers
    \/ \E k \in 1..Len(p) : p[k] = "[" /\ \A j \in (k + 1)..Len(p) : p[j] # "]"

\* C3: the constructor raises ValueError exactly on the empty pattern, a
\* pattern whose first character is `*` or `+`, and a pattern with a
\* character class that is never closed; on every other pattern it runs to
\* its end and the object has its StartState.
C3_InvalidPattern ==
    /\ pc = "invalid" => (InvalidPattern(regex_expr) /\ error # "")
    /\ Compiled => (~InvalidPattern(regex_expr) /\ graph[start_state].kind = "Start")
    /\ (pc = "compiling" /\ InvalidPattern(regex_expr))
          => \E k \in i..Len(regex_expr) :
                 regex_expr[k] = "[" /\ FindClose(regex_expr, k + 1) > Len(regex_expr)

C3_Witness ==
    /\ pc = "invalid"
    /\ error = "Unclosed character class"
    /\ Len(states) >= 1

\* C4: check_string(None) raises ValueError on every compiled pattern;
\* check_string("") never raises and returns whether a TerminationState
\* follows the closure of {StartState}.
C4_InputRequired ==
    /\ pc = "raised" => (input_str = None /\ error = "Input string is required")
    /\ pc \in {"scan", "returned"} => input_str # None
    /\ (pc = "returned" /\ input_str = <<>>)
          => \A queue \in Orderings(add_epsilon_transitions(graph, <<start_state>>)) :
                 result <=> can_terminate_without_input(graph, queue)

C4_Witness ==
    /\ pc = "raised"
    /\ input_str = None
    /\ calls >= 2

IsLiteral(c) == c \notin {".", "*", "+", "["}

\* C5: on the pattern x* with x a literal, check_string accepts exactly the
\* inputs made of zero or more copies of x.
C5_StarOfLiteral ==
    (/\ pc = "returned"
     /\ Len(regex_expr) = 2
     /\ IsLiteral(regex_expr[1])
     /\ regex_expr[2] = "*")
        => (result <=> \A k \in 1..Len(input_str) : input_str[k] = regex_expr[1])

C5_Witness ==
    /\ pc = "returned"
    /\ regex_expr = <<"a", "*">>
    /\ input_str = <<"a", "a", "a", "a">>
    /\ result

\* The objects reachable from those of S along next_states (S included).
RECURSIVE Reach(_, _)
Reach(g, S) ==
    LET T == S \cup UNION {SeqToSet(g[s].next_states) : s \in S}
    IN  IF T = S THEN S ELSE Reach(g, T)

\* The PlusStates of the graph g that the StartState reaches.
PlusStates(g) == {p \in Reach(g, {start_state}) : g[p].kind = "Plus"}

\* Whether, in a call that is under way or has returned, the active set holds
\* the PlusState p or a construct after it.
Entered(p) == pc \in {"scan", "returned"} /\ current \cap Reach(graph, {p}) # {}

\* C6: a `+` construct is never skipped.  On the pattern x+ with x a literal,
\* check_string accepts exactly the non-empty inputs made of x only.  In any
\* pattern, the active set of a call comes to hold a PlusState or a
\* construct after it only in an iteration of the loop in which the
\* PlusState itself, as the successor of an active state, consumes the
\* character read, and the PlusState is then active; and a call returns
\* true (the TerminationState is reached) only with such a state active
\* for every PlusState of the pattern.
C6_PlusNotSkipped ==
    /\ []((/\ pc = "returned"
           /\ Len(regex_expr) = 2
           /\ IsLiteral(regex_expr[1])
           /\ regex_expr[2] = "+")
              => (result <=>
                     /\ input_str # <<>>
                     /\ \A k \in 1..Len(input_str) : input_str[k] = regex_expr[1]))
    /\ [][\A p \in PlusStates(graph') :
             (Entered(p)' /\ ~(Entered(p) /\ calls' = calls))
                => /\ pc = "scan"
                   /\ pos <= Len(input_str)
                   /\ calls' = calls
                   /\ p \in NextStates(graph, current, input_str[pos])
                   /\ p \in current']_vars
    /\ []((pc = "returned" /\ result) => \A p \in PlusStates(graph) : Entered(p))

C6_Witness ==
    /\ pc = "returned"
    /\ regex_expr = <<"a", "+", "b", "*">>
    /\ input_str = <<"a", "a", "b">>
    /\ result

IsDigit(c) == c \in {"0", "1", "2", "3", "5", "9"}

IsLower(c) == c \in {"a", "b", "c", "x", "z"}

\* Whether the pattern is one bracket class and nothing else.
IsOneClass(p) ==
    /\ Len(p) >= 2
    /\ p[1] = "["
    /\ p[Len(p)] = "]"
    /\ \A k \in 2..(Len(p) - 1) : p[k] # "]"

\* C7: a bracket class accepts c iff (c is in one of its ranges by code point
\* or is one of its single characters) differs from negated; so [^0-9]
\* accepts just the single characters that are no digit, and [a-z0-9]+
\* accepts just the non-empty inputs of characters in a-z or 0-9.
C7_CharacterClass ==
    /\ (pc = "returned" /\ IsOneClass(regex_expr) /\ Len(input_str) = 1)
          => LET class == graph[2]
                 c     == input_str[1]
                 inside == \/ \E k \in 1..Len(class.char_ranges) :
                                  /\ Ord[class.char_ranges[k][1]] <= Ord[c]
                                  /\ Ord[c] <= Ord[class.char_ranges[k][2]]
                           \/ c \in class.individual_chars
             IN  result <=> (inside # class.negated)
    /\ (/\ pc = "returned"
        /\ regex_expr = <<"[", "^", "0", "-", "9", "]">>
        /\ Len(input_str) = 1)
          => (result <=> ~IsDigit(input_str[1]))
    /\ (/\ pc = "returned"
        /\ regex_expr = <<"[", "a", "-", "z", "0", "-", "9", "]", "+">>)
          => (result <=>
                 /\ input_str # <<>>
                 /\ \A k \in 1..Len(input_str) :
                        IsLower(input_str[k]) \/ IsDigit(input_str[k]))

C7_Witness ==
    /\ pc = "returned"
    /\ regex_expr = <<"[", "^", "0", "-", "9", "]">>
    /\ input_str = <<"x">>
    /\ result

\* C8: on a pattern that is one unquantified construct (a literal, `.` or a
\* bracket class), check_string returns false for every input of two or
\* more characters.
C8_SingleConstruct ==
    (/\ pc = "returned"
     /\ \/ Len(regex_expr) = 1
        \/ IsOneClass(regex_expr)
     /\ Len(input_str) >= 2)
        => ~result

C8_Witness ==
    /\ pc = "returned"
    /\ regex_expr = <<".">>
    /\ input_str = <<"a", "b">>
    /\ ~result

\* C9: the outcome is a function of the pattern and the input alone: a run,
\* whatever order it iterates its sets in, raises in the constructor just
\* when another construction of the same pattern does, and returns what a
\* run on another construction of the pattern returns.
C9_Deterministic ==
    /\ pc = "invalid" => RegexFSM(regex_expr).error = error
    /\ Compiled => RegexFSM(regex_expr).error = ""
    /\ pc = "returned"
          => check_string(RegexFSM(regex_expr).graph, input_str) = {result}

C9_Witness ==
    /\ pc = "returned"
    /\ Cardinality(current) >= 2
    /\ pos > Len(input_str)
    /\ Len(input_str) >= 2
    /\ result

\* C10: check_string leaves the graph as the constructor built it, through
\* any sequence of calls, and a later call returns what a first call on a
\* newly built object returns.
C10_GraphUnchanged ==
    /\ Compiled => graph = RegexFSM(regex_expr).graph
    /\ (pc = "returned" /\ calls >= 2)
          => check_string(RegexFSM(regex_expr).graph, input_str) = {result}

C10_Witness ==
    /\ pc = "returned"
    /\ calls >= 2
    /\ Len(input_str) >= 2
    /\ \E s \in Reach(graph, {start_state}) : graph[s].kind = "Star"
    /\ result

(***************************************************************************)
(* One run of check_string followed one loop iteration at a time: every    *)
(* iteration of the while loops of _add_epsilon_transitions and            *)
(* _can_terminate_without_input is a step.  The object is constructed; pc  *)
(* is "ready", then "closure" (in _add_epsilon_transitions), "scan" (in    *)
(* check_string, between two searches), "terminating" (in                  *)
(* _can_terminate_without_input) and "returned".                           *)
(***************************************************************************)
MaxRunPatLen == 4
MaxRunInLen == 2

RunAlphabet == {"a", ".", "*", "+"}

RunPatterns ==
    {p \in SeqsUpTo(RunAlphabet, MaxRunPatLen) \cup ExamplePatterns :
        RegexFSM(p).error = ""}

RunInputs == SeqsUpTo(InAlphabet, MaxRunInLen)

\* The locals of a search as it starts from list(states) = list.
StartSearch(g, list) ==
    [res |-> SeqToSet(list), worklist |-> list, queue |-> list, visited |-> {},
     visits |-> [s \in 1..Len(g) |-> 0]]

\* One iteration of the while loop of _add_epsilon_transitions without the
\* test `state in visited`: C11_Terminates tells the two apart.
EpsilonIterationUnguarded(g, sr) ==
    LET state == Head(sr.worklist)
        rest  == Tail(sr.worklist)
        seen  == sr.visited \cup {state}
        first == IF IsStarState(g, state)
                 THEN SelfLoopFold(g, state, 1, sr.res, rest, seen)
                 ELSE [res |-> sr.res, worklist |-> rest]
        added == StarSuccessors(g, state, seen)
    IN  [sr EXCEPT !.res = first.res \cup SeqToSet(added),
                   !.worklist = first.worklist \o added,
                   !.visited = seen,
                   !.visits[state] = @ + 1]

\* One iteration of the while loop of _add_epsilon_transitions.
EpsilonIteration(g, sr) ==
    LET state == Head(sr.worklist)
        rest  == Tail(sr.worklist)
    IN  IF state \in sr.visited THEN [sr EXCEPT !.worklist = rest]
        ELSE LET seen  == sr.visited \cup {state}
                 first == IF IsStarState(g, state)
                          THEN SelfLoopFold(g, state, 1, sr.res, rest, seen)
                          ELSE [res |-> sr.res, worklist |-> rest]
                 added == StarSuccessors(g, state, seen)
             IN  [sr EXCEPT !.res = first.res \cup SeqToSet(added),
                            !.worklist = first.worklist \o added,
                            !.visited = seen,
                            !.visits[state] = @ + 1]

\* One iteration of the while loop of _can_terminate_without_input that does
\* not return.
TerminateIteration(g, sr) ==
    LET state == Head(sr.queue)
        rest  == Tail(sr.queue)
    IN  IF state \in sr.visited THEN [sr EXCEPT !.queue = rest]
        ELSE LET seen == sr.visited \cup {state}
             IN  [sr EXCEPT !.queue = rest \o StarSuccessors(g, state, seen),
                            !.visited = seen,
                            !.visits[state] = @ + 1]

RunInit ==
    /\ regex_expr \in RunPatterns
    /\ i = 1
    /\ states = <<>>
    /\ graph = RegexFSM(regex_expr).graph
    /\ pc = "ready"
    /\ error = ""
    /\ input_str = None
    /\ pos = 1
    /\ current = {}
    /\ result = FALSE
    /\ calls = 0
    /\ search = NoSearch

RunFrame == UNCHANGED <<regex_expr, i, states, graph, error>>

\* check_string(s) up to the first iteration of _add_epsilon_transitions.
RunCall ==
    /\ pc = "ready"
    /\ \E s \in RunInputs : input_str' = s
    /\ current' = {start_state}
    /\ search' = StartSearch(graph, <<start_state>>)
    /\ pc' = "closure"
    /\ calls' = calls + 1
    /\ UNCHANGED <<pos, result>>
    /\ RunFrame

RunEpsilon ==
    /\ pc = "closure"
    /\ search.worklist # <<>>
    /\ search' = EpsilonIteration(graph, search)
    /\ UNCHANGED <<input_str, pos, current, result, calls, pc>>
    /\ RunFrame

\* _add_epsilon_transitions returns res, which check_string makes current.
RunEpsilonReturn ==
    /\ pc = "closure"
    /\ search.worklist = <<>>
    /\ current' = search.res
    /\ search' = NoSearch
    /\ pc' = "scan"
    /\ UNCHANGED <<input_str, pos, result, calls>>
    /\ RunFrame

\* One iteration of the loop over input_str, up to its search.
RunChar ==
    /\ pc = "scan"
    /\ pos <= Len(input_str)
    /\ LET next_states == NextStates(graph, current, input_str[pos])
       IN  IF next_states = {}
           THEN /\ result' = FALSE
                /\ pc' = "returned"
                /\ UNCHANGED <<pos, search>>
           ELSE /\ \E list \in Orderings(next_states) :
                       search' = StartSearch(graph, list)
                /\ pos' = pos + 1
                /\ pc' = "closure"
                /\ UNCHANGED result
    /\ UNCHANGED <<input_str, current, calls>>
    /\ RunFrame

\* The call of _can_terminate_without_input, at the end of the input.
RunTerminateCall ==
    /\ pc = "scan"
    /\ pos > Len(input_str)
    /\ \E list \in Orderings(current) : search' = StartSearch(graph, list)
    /\ pc' = "terminating"
    /\ UNCHANGED <<input_str, pos, current, result, calls>>
    /\ RunFrame

RunTerminate ==
    /\ pc = "terminating"
    /\ search.queue # <<>>
    /\ IF Head(search.queue) \notin search.visited
          /\ HasTermination(graph, Head(search.queue))
       THEN /\ result' = TRUE
            /\ pc' = "returned"
            /\ search' = [search EXCEPT !.queue = Tail(@),
                                        !.visited = @ \cup {Head(search.queue)},
                                        !.visits[Head(search.queue)] = @ + 1]
       ELSE /\ search' = TerminateIteration(graph, search)
            /\ UNCHANGED <<pc, result>>
    /\ UNCHANGED <<input_str, pos, current, calls>>
    /\ RunFrame

RunTerminateReturn ==
    /\ pc = "terminating"
    /\ search.queue = <<>>
    /\ result' = FALSE
    /\ pc' = "returned"
    /\ UNCHANGED <<input_str, pos, current, calls, search>>
    /\ RunFrame

RunNext ==
    \/ RunCall
    \/ RunEpsilon
    \/ RunEpsilonReturn
    \/ RunChar
    \/ RunTerminateCall
    \/ RunTerminate
    \/ RunTerminateReturn

\* The interpreter runs the call on: no step that can be taken is put off
\* for ever.
LiveRun == RunInit /\ [][RunNext]_vars /\ WF_vars(RunNext)

\* The run followed by iterations returns what the whole call returns.
RunAgrees == pc = "returned" => result \in check_string(graph, input_str)

\* C11: every run of check_string ends: each search adds an object to its
\* visited set at most once, so that its worklist drains, the loop over the
\* input moves on by exactly one character per iteration, and the call
\* returns.
C11_Terminates ==
    /\ [](\A s \in DOMAIN search.visits : search.visits[s] <= 1)
    /\ [][pos' # pos => (pc = "scan" /\ pos <= Len(input_str) /\ pos' = pos + 1)]_vars
    /\ [](pc = "terminating" => pos = Len(input_str) + 1)
    /\ <>(pc = "returned")

C11_Witness ==
    /\ pc = "closure"
    /\ search.worklist # <<>>
    /\ Head(search.worklist) \in search.visited
    /\ graph[Head(search.worklist)].kind = "Star"

(***************************************************************************)
(* The shape of the graph.                                                 *)
(***************************************************************************)
Successors(g, s) == SeqToSet(g[s].next_states)

Reachable(g) == Reach(g, {start_state})

IsRepeat(g, s) == g[s].kind \in {"Star", "Plus"}

\* C12: in the graph of every compiled pattern, the objects reachable from
\* the StartState hold one StartState, which no edge enters, and one
\* TerminationState, which no edge leaves and which is reachable.
C12_OneStartOneTermination ==
    pc = "ready" =>
        LET R == Reachable(graph)
        IN  /\ {s \in R : graph[s].kind = "Start"} = {start_state}
            /\ \A s \in R : start_state \notin Successors(graph, s)
            /\ Cardinality({s \in R : graph[s].kind = "Termination"}) = 1
            /\ \A s \in R : graph[s].kind = "Termination" => graph[s].next_states = <<>>

C12_Witness ==
    /\ pc = "ready"
    /\ Cardinality(Reachable(graph)) >= 4
    /\ Cardinality(Reachable(graph)) < Len(graph)

\* How many edges s has to t.
Edges(g, s, t) == Cardinality({k \in 1..Len(g[s].next_states) : g[s].next_states[k] = t})

\* C13: in every compiled graph the only cycles are the self-loops of the
\* StarStates and PlusStates: each such state reachable from the StartState
\* has exactly one edge to itself, no other state has one, and without the
\* self-loops the reachable graph is a chain from the StartState to the
\* TerminationState.
C13_OnlySelfLoops ==
    pc = "ready" =>
        \A s \in Reachable(graph) :
            /\ Edges(graph, s, s) = (IF IsRepeat(graph, s) THEN 1 ELSE 0)
            /\ s \notin Reach(graph, Successors(graph, s) \ {s})
            /\ Cardinality(Successors(graph, s) \ {s})
                  = (IF graph[s].kind = "Termination" THEN 0 ELSE 1)

C13_Witness ==
    /\ pc = "ready"
    /\ Cardinality({s \in Reachable(graph) : IsRepeat(graph, s)}) >= 2

\* What the claim says of a StarState or PlusState r of the graph being
\* built, and of the state prev it wraps: prev is not reachable from the
\* StartState, and nothing refers to prev but r, as its inner state.
OnlyInner(r) ==
    LET prev == graph[r].checking_state
    IN  /\ prev \notin Reachable(graph)
        /\ \A s \in DOMAIN graph :
              /\ prev \notin Successors(graph, s)
              /\ (s # r => graph[s].checking_state # prev)

\* C14 as first stated: from the handling of a `*` or `+` to the end of the
\* constructor, prev is referred to as the inner state of the new state
\* only.  A wrapped StarState or PlusState (the pattern a**) still has its
\* edge to itself.
C14_OnlyInnerReference ==
    (pc = "compiling" \/ Compiled)
        => \A r \in DOMAIN graph : IsRepeat(graph, r) => OnlyInner(r)

\* The same with the self-loop of prev left out: no other object has an edge
\* to prev, and prev has one to itself just when it is a StarState or
\* PlusState.
Wrapped(r) ==
    LET prev == graph[r].checking_state
    IN  /\ prev \notin Reachable(graph)
        /\ (prev \in Successors(graph, prev)) = IsRepeat(graph, prev)
        /\ \A s \in DOMAIN graph :
              /\ (s # prev => prev \notin Successors(graph, s))
              /\ (s # r => graph[s].checking_state # prev)

\* C14: when the constructor has handled a `*` or `+`, the parent (the
\* construct before the last, or the StartState) has the new StarState or
\* PlusState among its successors and no longer prev, the last entry of
\* states is the new state, and from then to the end of the constructor
\* prev is not reachable from the StartState and no other object refers to
\* it but the new state, as its inner state; the only edge to prev is the
\* self-loop a wrapped StarState or PlusState keeps.
C14_Rewired ==
    /\ [][(pc = "compiling" /\ Len(graph') = Len(graph) + 1
                            /\ IsRepeat(graph', Len(graph')))
            => LET n      == Len(states)
                   prev   == states[n]
                   new    == Len(graph')
                   parent == IF n >= 2 THEN states[n - 1] ELSE start_state
               IN  /\ prev \notin Successors(graph', parent)
                   /\ new \in Successors(graph', parent)
                   /\ states' = [states EXCEPT ![n] = new]
                   /\ graph'[new].checking_state = prev]_vars
    /\ []((pc = "compiling" \/ Compiled)
            => \A r \in DOMAIN graph : IsRepeat(graph, r) => Wrapped(r))

C14_Witness ==
    /\ pc = "ready"
    /\ Len(regex_expr) = 3
    /\ regex_expr[2] \in Quantifiers
    /\ regex_expr[3] \in Quantifiers

(***************************************************************************)
(* Bracket classes.                                                        *)
(***************************************************************************)
\* C15: every (low, high) stored in the char_ranges of a class has
\* low <= high by code point.
C15_RangesOrdered ==
    (pc = "compiling" \/ Compiled) =>
        \A s \in DOMAIN graph :
            \A k \in 1..Len(graph[s].char_ranges) :
                Ord[graph[s].char_ranges[k][1]] <= Ord[graph[s].char_ranges[k][2]]

\* The body of the class a pattern starts with.
FirstClassBody(p) == Slice(p, 2, FindClose(p, 2) - 1)

\* The left-to-right rule on the body b from position k: the items read, a
\* range <<low, "-", high>> where a `-` and a right endpoint follow, else the
\* single <<c>>.
RECURSIVE Items(_, _)
Items(b, k) ==
    IF k > Len(b) THEN <<>>
    ELSE IF k + 2 <= Len(b) /\ b[k + 1] = "-"
         THEN << <<b[k], "-", b[k + 2]>> >> \o Items(b, k + 3)
         ELSE << <<b[k]>> >> \o Items(b, k + 1)

RECURSIVE SumLen(_)
SumLen(items) == IF items = <<>> THEN 0 ELSE Len(Head(items)) + SumLen(Tail(items))

\* C16: a class body is read from left to right: a `^` in first position
\* sets negated and is passed over; then a character followed by `-` and a
\* further character is a range and the scan moves on by 3, any other
\* character is a single and the scan moves on by 1.  So the body `a-` gives
\* the singles `a` and `-` and no range, and every character of the body is
\* in exactly one range or single.
C16_ClassParsing ==
    /\ (Compiled /\ regex_expr[1] = "[") =>
          LET body   == FirstClassBody(regex_expr)
              caret  == body # <<>> /\ body[1] = "^"
              rest   == IF caret THEN Slice(body, 2, Len(body)) ELSE body
              items  == Items(rest, 1)
              ranges == SelectSeq(items, LAMBDA it : Len(it) = 3)
              class  == graph[2]
          IN  /\ class.kind = "Class"
              /\ class.negated = caret
              /\ Len(class.char_ranges) = Len(ranges)
              /\ \A k \in 1..Len(ranges) :
                     class.char_ranges[k] = <<ranges[k][1], ranges[k][3]>>
              /\ class.individual_chars
                     = {items[k][1] : k \in {m \in 1..Len(items) : Len(items[m]) = 1}}
              /\ SumLen(items) = Len(rest)
    /\ (Compiled /\ regex_expr = <<"[", "a", "-", "]", "+">>) =>
          /\ graph[2].char_ranges = <<>>
          /\ graph[2].individual_chars = {"a", "-"}
          /\ ~graph[2].negated

C16_Witness ==
    /\ pc = "ready"
    /\ regex_expr[1] = "["
    /\ graph[2].negated
    /\ Len(graph[2].char_ranges) = 1
    /\ graph[2].individual_chars = {}

(***************************************************************************)
(* The searches.                                                           *)
(***************************************************************************)
MaxSetSize == 3

\* The sets of at most MaxSetSize objects of the graph.
StateSets(g) == {S \in SUBSET (1..Len(g)) : Cardinality(S) <= MaxSetSize}

\* The StarStates reached from a member of S by a path on which every
\* object after the first is a StarState.
RECURSIVE StarReach(_, _, _)
StarReach(g, S, found) ==
    LET more == {t \in UNION {Successors(g, s) : s \in S \cup found} :
                    g[t].kind = "Star"}
    IN  IF more \subseteq found THEN found ELSE StarReach(g, S, found \cup more)

\* The members of S as a list, in the order of their creation.
RECURSIVE Ascending(_)
Ascending(S) ==
    IF S = {} THEN <<>>
    ELSE LET low == CHOOSE x \in S : \A y \in S : x <= y
         IN  <<low>> \o Ascending(S \ {low})

\* C17: on every set S of states of a compiled graph,
\* _add_epsilon_transitions returns S together with exactly the StarStates
\* reached from a member of S by a path on which every state after the first
\* is a StarState; what it adds are StarStates only, and applying it to its
\* result changes nothing.  S is listed in every order; where the result is
\* itself a set of at most MaxSetSize states, that makes it one of the S.
C17_Closure ==
    pc = "ready" =>
        \A S \in StateSets(graph) : \A list \in Orderings(S) :
            LET closed == add_epsilon_transitions(graph, list)
            IN  /\ closed = S \cup StarReach(graph, S, {})
                /\ S \subseteq closed
                /\ \A t \in closed \ S : graph[t].kind = "Star"
                /\ add_epsilon_transitions(graph, Ascending(closed)) = closed

C17_Witness ==
    /\ pc = "ready"
    /\ Cardinality(add_epsilon_transitions(graph, <<start_state>>)) = 3
    /\ \E s \in DOMAIN graph : graph[s].kind = "Ascii" /\ s \in Reachable(graph)

\* Whether a member of the set A has a TerminationState among its successors.
DirectEdge(g, A) == \E s \in A : \E t \in Successors(g, s) : g[t].kind = "Termination"

\* C18: on an active set that _add_epsilon_transitions returned, the
\* termination search answers what the test for a direct edge to the
\* TerminationState answers; so does the value returned at the end of the
\* input.
C18_DirectEdge ==
    /\ pc = "scan" =>
          \A queue \in Orderings(current) :
              can_terminate_without_input(graph, queue) <=> DirectEdge(graph, current)
    /\ (pc = "returned" /\ pos > Len(input_str))
          => (result <=> DirectEdge(graph, current))

C18_Witness ==
    /\ pc = "returned"
    /\ pos > Len(input_str)
    /\ result
    /\ \E s \in current : graph[s].kind = "Star" /\ ~DirectEdge(graph, {s})

\* C19: a character that no successor of an active state accepts makes
\* check_string return false at once, at that character; on a string
\* check_string never raises and returns a boolean; and the active set is
\* never empty when an iteration of the loop starts.
C19_RejectIsFalse ==
    /\ pc = "scan" => current # {}
    /\ (pc = "returned" /\ pos <= Len(input_str))
          => (~result /\ NextStates(graph, current, input_str[pos]) = {})
    /\ (pc = "scan" /\ pos > 1)
          => \E s \in current : check_self(graph, s, input_str[pos - 1])
    /\ pc = "raised" => input_str = None
    /\ result \in BOOLEAN

C19_Witness ==
    /\ pc = "returned"
    /\ pos = 2
    /\ Len(input_str) = 3
    /\ ~result

\* C20: a quantifier written after a quantified literal x wraps the
\* StarState or PlusState built before, and the pattern is x under the last
\* quantifier alone: x+* and x** accept the inputs of zero or more x, x*+
\* and x++ those of one or more x.
C20_NestedQuantifiers ==
    (/\ Compiled
     /\ Len(regex_expr) = 3
     /\ IsLiteral(regex_expr[1])
     /\ regex_expr[2] \in Quantifiers
     /\ regex_expr[3] \in Quantifiers)
        => /\ graph[4].kind = (IF regex_expr[3] = "*" THEN "Star" ELSE "Plus")
           /\ graph[4].checking_state = 3
           /\ graph[3].kind = (IF regex_expr[2] = "*" THEN "Star" ELSE "Plus")
           /\ graph[3].checking_state = 2
           /\ pc = "returned" =>
                 (result <=>
                     /\ \A k \in 1..Len(input_str) : input_str[k] = regex_expr[1]
                     /\ regex_expr[3] = "+" => input_str # <<>>)

C20_Witness ==
    /\ pc = "returned"
    /\ regex_expr = <<"a", "*", "+">>
    /\ input_str = <<>>
    /\ ~result

====
